---- MODULE Spec2Model ----
(***************************************************************************)
(* Doctor appointment API: availability windows, appointment booking and   *)
(* cancellation, as implemented by app/services, app/repositories,         *)
(* app/schemas and app/dependencies.                                       *)
(*                                                                         *)
(* Times are points of a discrete clock.  A stored interval is the         *)
(* half-open [start_time, end_time).  Primary keys are AUTO_INCREMENT and  *)
(* no row is ever deleted, so a row's id is its position in its table.     *)
(***************************************************************************)
EXTENDS Integers, Sequences, FiniteSets

\* ---------------------------------------------------------------- bounds
MaxTime == 3
MaxAppointments == 2
MaxAvailabilities == 2
NumTasks == 2
MaxUsers == 2
\* UserCreate.password has 8 to 100 characters and bcrypt reads 72 bytes: the
\* three lengths are scaled down, keeping Min < bcrypt's limit < Max.
MinPasswordLen == 1
BcryptMaxBytes == 2
MaxPasswordLen == 3
NumSalts == 2
\* settings.access_token_expire_minutes, in ticks of the clock.
ExpireTicks == 1

\* The instants a request can name.  The clock starts at 0, one tick before
\* the first of them, so that each of them is in the future at first.
Time == 1..MaxTime
\* The readings of the clock.
Clock == 0..MaxTime

\* ---------------------------------------------------------------- state
VARIABLES
    users,           \* users table: id -> [role]
    availabilities,  \* availabilities table, id = index
    appointments,    \* appointments table, id = index
    now,             \* the wall clock datetime.now() reads
    last,            \* the request just answered and what its caller received
    tasks            \* the booking requests in flight, one coroutine each

vars == <<users, availabilities, appointments, now, last, tasks>>

\* AppointmentStatus
CONFIRMED == "confirmed"
CANCELLED == "cancelled"

\* UserRole
DOCTOR == "Doctor"
PATIENT == "Patient"

\* ---------------------------------------------------------------- passwords
\* A password is a sequence of one-byte characters.
Chars == {"a", "b"}
Passwords == UNION {[1..n -> Chars] : n \in MinPasswordLen..MaxPasswordLen}
Salts == 1..NumSalts

\* The bcrypt package installed: releases before 5.0 read the first 72 bytes
\* of a longer password, releases from 5.0 on raise ValueError for one.
BcryptBuilds == {"truncates", "raises"}

\* What bcrypt.hashpw gives when it raises.
BcryptError == [salt |-> 0, digest |-> <<"ValueError">>]

\* password_bytes[:72]
Truncate(password) ==
    SubSeq(password, 1, IF Len(password) < BcryptMaxBytes THEN Len(password)
                        ELSE BcryptMaxBytes)

\* bcrypt.hashpw(password, salt): the hash carries its salt; two hashes are
\* equal exactly when salt and the bytes bcrypt read are.
bcrypt_hashpw(password, salt, build) ==
    IF Len(password) > BcryptMaxBytes /\ build = "raises" THEN BcryptError
    ELSE [salt |-> salt, digest |-> Truncate(password)]

\* bcrypt.checkpw(password, hashed): hashes the password with the salt of
\* hashed and compares.
bcrypt_checkpw(password, hashed, build) ==
    LET h == bcrypt_hashpw(password, hashed.salt, build)
    IN IF h = BcryptError THEN "ValueError"
       ELSE IF h = hashed THEN "True" ELSE "False"

\* Variant: verify_password truncates as get_password_hash does.
verify_password_truncated(plain_password, hashed_password, build) ==
    bcrypt_checkpw(Truncate(plain_password), hashed_password, build)

\* AuthService.verify_password: the password goes to bcrypt as it is.
verify_password(plain_password, hashed_password, build) ==
    bcrypt_checkpw(plain_password, hashed_password, build)

\* AuthService.get_password_hash with the salt bcrypt.gensalt drew.
get_password_hash(password, salt, build) ==
    bcrypt_hashpw(Truncate(password), salt, build)

\* ---------------------------------------------------------------- tokens
Emails == {"a@test.com", "b@test.com"}
SECRET_KEY == "secret_key"
\* A JWT: its claims and the key that signed it.
Token(sub, role, exp, key) == [sub |-> sub, role |-> role, exp |-> exp, key |-> key]
NoToken == Token("none", "none", 0, "none")

\* AuthService.create_access_token(data) without expires_delta, at clock t.
create_access_token(data, t) ==
    Token(data.sub, data.role, t + ExpireTicks, SECRET_KEY)

\* Variant: the expiry of the token is not verified.
decode_access_token_no_expiry(token, t) ==
    IF token.key # SECRET_KEY THEN NoToken ELSE token

\* AuthService.decode_access_token at clock t: the payload, or NoToken for the
\* HTTP 401 raised on a JWTError (bad signature, or exp < now).
decode_access_token(token, t) ==
    IF token.key # SECRET_KEY THEN NoToken
    ELSE IF token.exp < t THEN NoToken
    ELSE token

\* The registered users: two doctors and two patients.
RegisteredUsers ==
    LET hash == get_password_hash([i \in 1..MinPasswordLen |-> "a"], 1, "truncates")
    IN <<[role |-> DOCTOR, email |-> "doctor1@test.com", password_hash |-> hash],
         [role |-> DOCTOR, email |-> "doctor2@test.com", password_hash |-> hash],
         [role |-> PATIENT, email |-> "patient1@test.com", password_hash |-> hash],
         [role |-> PATIENT, email |-> "patient2@test.com", password_hash |-> hash]>>

UserIds == DOMAIN users
\* A request's bearer token resolves to a user, or (NoUser) is invalid,
\* expired or names an email no user has.
NoUser == 0
Callers == UserIds \cup {NoUser}
\* doctor_id and appointment_id are any integer the client sends.
DoctorIdArgs == UserIds \cup {NoUser}
AppointmentIdArgs == 1..(MaxAppointments + 1)

\* ---------------------------------------------------------------- helpers
\* The ids of a table.
Ids(table) == DOMAIN table

\* UserRepository.get_user_by_id: the role of the user, or "none".
get_user_by_id(user_id) ==
    IF user_id \in UserIds THEN users[user_id].role ELSE "none"

\* Variant: the gate authenticates the caller and does not compare the role.
require_role_any(caller, role) ==
    IF caller \notin DOMAIN users THEN "Unauthenticated" ELSE "ok"

\* UserRepository.get_user_by_email: the id of the user with the email, NoUser
\* for none (the UNIQUE index on users.email leaves at most one).
get_user_by_email(us, email) ==
    LET rows == {i \in DOMAIN us : us[i].email = email}
    IN IF rows = {} THEN NoUser ELSE CHOOSE i \in rows : TRUE

\* Variant: users.email has no UNIQUE index.
create_user_no_unique(us, email, password_hash, role) ==
    LET new == Append(us, [role |-> role, email |-> email,
                            password_hash |-> password_hash])
    IN [users |-> new, id |-> Len(new), outcome |-> "ok"]

\* UserRepository.create_user: the INSERT and its commit.  The UNIQUE index on
\* users.email makes the commit fail with IntegrityError, which is rolled back
\* and raised again.
create_user(us, email, password_hash, role) ==
    LET new == Append(us, [role |-> role, email |-> email,
                            password_hash |-> password_hash])
    IN IF \E i \in DOMAIN us : us[i].email = email
       THEN [users |-> us, id |-> 0, outcome |-> "IntegrityError"]
       ELSE [users |-> new, id |-> Len(new), outcome |-> "ok"]

\* get_current_user + get_current_patient / get_current_doctor:
\* "ok", or the HTTP error raised before the endpoint body runs.
require_role(caller, role) ==
    IF caller \notin UserIds THEN "Unauthenticated"
    ELSE IF users[caller].role # role THEN "Forbidden"
    ELSE "ok"

\* AppointmentBase / AvailabilityBase field validators, run with the clock
\* reading t.  start_time is validated first; when it fails it is absent from
\* info.data and the end_time comparison is skipped.
validate_interval(s, e, t) ==
    IF s < t THEN "PastInterval"
    ELSE IF e <= s THEN "InvalidInterval"
    ELSE "ok"

\* Result.scalar_one_or_none() on a set of matching rows: None for no row,
\* the row for one, MultipleResultsFound raised for more.
scalar_one_or_none(rows) ==
    IF rows = {} THEN "None"
    ELSE IF Cardinality(rows) = 1 THEN "row"
    ELSE "MultipleResultsFound"

\* Variant: the conflict query compares start times only.
booking_conflict_rows_same_start(appts, doctor_id, s, e) ==
    {i \in Ids(appts) :
        /\ appts[i].doctor_id = doctor_id
        /\ appts[i].status = CONFIRMED
        /\ appts[i].start_time = s}

\* Variant: the conflict query uses closed comparisons.
booking_conflict_rows_closed(appts, doctor_id, s, e) ==
    {i \in Ids(appts) :
        /\ appts[i].doctor_id = doctor_id
        /\ appts[i].status = CONFIRMED
        /\ appts[i].start_time <= e
        /\ appts[i].end_time >= s}

\* Variant: the conflict query does not filter on the status.
booking_conflict_rows_any_status(appts, doctor_id, s, e) ==
    {i \in Ids(appts) :
        /\ appts[i].doctor_id = doctor_id
        /\ appts[i].start_time < e
        /\ appts[i].end_time > s}

\* Variant: the conflict query does not filter on the doctor.
booking_conflict_rows_any_doctor(appts, doctor_id, s, e) ==
    {i \in DOMAIN appts :
        /\ appts[i].status = CONFIRMED
        /\ appts[i].start_time < e
        /\ appts[i].end_time > s}

\* Variant: a stored appointment conflicts when it starts inside the request.
booking_conflict_rows_starts_inside(appts, doctor_id, s, e) ==
    {i \in DOMAIN appts :
        /\ appts[i].doctor_id = doctor_id
        /\ appts[i].status = CONFIRMED
        /\ appts[i].start_time >= s
        /\ appts[i].start_time < e}

\* The WHERE clause of AppointmentRepository.check_booking_conflict.
booking_conflict_rows(appts, doctor_id, s, e) ==
    {i \in Ids(appts) :
        /\ appts[i].doctor_id = doctor_id
        /\ appts[i].status = CONFIRMED
        /\ appts[i].start_time < e
        /\ appts[i].end_time > s}

\* `scalar_one_or_none() is not None`: "True", "False", or the exception.
is_not_none(r) ==
    IF r = "MultipleResultsFound" THEN r ELSE IF r = "None" THEN "False" ELSE "True"

\* AppointmentRepository.check_booking_conflict
check_booking_conflict(appts, doctor_id, s, e) ==
    is_not_none(scalar_one_or_none(booking_conflict_rows(appts, doctor_id, s, e)))

\* AvailabilityRepository.get_doctor_availabilities without start_date.
get_doctor_availabilities(avs, doctor_id) ==
    {i \in Ids(avs) : avs[i].doctor_id = doctor_id}

\* Variant: only the start of the interval has to lie in a window.
check_time_within_availability_start_only(avs, doctor_id, s, e) ==
    \E i \in {j \in Ids(avs) : avs[j].doctor_id = doctor_id} :
        avs[i].start_time <= s /\ avs[i].end_time > s

\* Variant: the windows of the doctor are merged, each instant of the interval
\* having to lie in some window.
check_time_within_availability_merged(avs, doctor_id, s, e) ==
    \A t \in s..(e - 1) :
        \E i \in {j \in Ids(avs) : avs[j].doctor_id = doctor_id} :
            avs[i].start_time <= t /\ avs[i].end_time >= t + 1

\* PatientService._check_time_within_availability
check_time_within_availability(avs, doctor_id, s, e) ==
    \E i \in get_doctor_availabilities(avs, doctor_id) :
        avs[i].start_time <= s /\ avs[i].end_time >= e

\* The WHERE clause of AvailabilityRepository.check_availability_overlap.
availability_overlap_rows(avs, doctor_id, s, e) ==
    {i \in Ids(avs) :
        /\ avs[i].doctor_id = doctor_id
        /\ avs[i].start_time < e
        /\ avs[i].end_time > s}

\* AvailabilityRepository.check_availability_overlap
check_availability_overlap(avs, doctor_id, s, e) ==
    is_not_none(scalar_one_or_none(availability_overlap_rows(avs, doctor_id, s, e)))

\* AppointmentRepository.create_appointment: the table after the INSERT.
create_appointment(appts, doctor_id, patient_id, s, e) ==
    Append(appts, [doctor_id |-> doctor_id, patient_id |-> patient_id,
                   start_time |-> s, end_time |-> e, status |-> CONFIRMED])

\* Variant: the INSERT replaces the window the doctor already has.
create_availability_upsert(avs, doctor_id, s, e) ==
    LET row == [doctor_id |-> doctor_id, start_time |-> s, end_time |-> e]
        own == {i \in DOMAIN avs : avs[i].doctor_id = doctor_id}
    IN IF own = {} THEN Append(avs, row)
       ELSE [avs EXCEPT ![CHOOSE i \in own : \A j \in own : i <= j] = row]

\* AvailabilityRepository.create_availability: the table after the INSERT.
create_availability(avs, doctor_id, s, e) ==
    Append(avs, [doctor_id |-> doctor_id, start_time |-> s, end_time |-> e])

\* Variant: the UPDATE flips the status.
repo_cancel_appointment_toggle(appts, appointment_id) ==
    IF appointment_id \in DOMAIN appts
    THEN [appts EXCEPT ![appointment_id].status =
              IF @ = CONFIRMED THEN CANCELLED ELSE CONFIRMED]
    ELSE appts

\* AppointmentRepository.cancel_appointment: the table after the UPDATE.
repo_cancel_appointment(appts, appointment_id) ==
    IF appointment_id \in Ids(appts)
    THEN [appts EXCEPT ![appointment_id].status = CANCELLED]
    ELSE appts

\* AppointmentResponse.model_validate / AvailabilityResponse.model_validate of
\* a stored row with the clock reading t: the response schemas inherit the
\* validators of the request schemas.
response_validate(row, t) ==
    IF validate_interval(row.start_time, row.end_time, t) = "ok"
    THEN "ok" ELSE "ResponseValidationError"

\* ---------------------------------------------------------------- outcomes
\* Variant: the doctor is looked up before the body is validated.
book_admission_lookup_first(caller, doctor_id, s, e) ==
    LET gate == IF caller \notin DOMAIN users THEN "Unauthenticated"
                ELSE IF users[caller].role # PATIENT THEN "Forbidden" ELSE "ok"
        valid == validate_interval(s, e, now)
        conflict == check_booking_conflict(appointments, doctor_id, s, e)
    IN IF gate # "ok" THEN gate
       ELSE IF get_user_by_id(doctor_id) # DOCTOR THEN "NotFound"
       ELSE IF valid # "ok" THEN valid
       ELSE IF ~check_time_within_availability(availabilities, doctor_id, s, e)
            THEN "OutsideAvailability"
       ELSE IF conflict = "MultipleResultsFound" THEN "MultipleResultsFound"
       ELSE IF conflict = "True" THEN "DoubleBooked"
       ELSE "create"

\* POST /appointments up to the INSERT: "create" when the request is admitted,
\* else the error the caller receives.
book_admission(caller, doctor_id, s, e) ==
    LET gate == require_role(caller, PATIENT)
        valid == validate_interval(s, e, now)
        conflict == check_booking_conflict(appointments, doctor_id, s, e)
    IN IF gate # "ok" THEN gate
       ELSE IF valid # "ok" THEN valid
       ELSE IF get_user_by_id(doctor_id) # DOCTOR THEN "NotFound"
       ELSE IF ~check_time_within_availability(availabilities, doctor_id, s, e)
            THEN "OutsideAvailability"
       ELSE IF conflict = "MultipleResultsFound" THEN "MultipleResultsFound"
       ELSE IF conflict = "True" THEN "DoubleBooked"
       ELSE "create"

\* POST /doctors/availability up to the INSERT.
availability_admission(caller, s, e) ==
    LET gate == require_role(caller, DOCTOR)
        valid == validate_interval(s, e, now)
        overlap == check_availability_overlap(availabilities, caller, s, e)
    IN IF gate # "ok" THEN gate
       ELSE IF valid # "ok" THEN valid
       ELSE IF overlap = "MultipleResultsFound" THEN "MultipleResultsFound"
       ELSE IF overlap = "True" THEN "OverlapConflict"
       ELSE "create"

\* Variant: the owner of the appointment is not compared with the caller.
cancel_admission_any_patient(caller, appointment_id) ==
    LET gate == IF caller \notin DOMAIN users THEN "Unauthenticated"
                ELSE IF users[caller].role # PATIENT THEN "Forbidden" ELSE "ok"
    IN IF gate # "ok" THEN gate
       ELSE IF appointment_id \notin DOMAIN appointments THEN "NotFound"
       ELSE "update"

\* DELETE /appointments/{id} up to the UPDATE.
cancel_admission(caller, appointment_id) ==
    LET gate == require_role(caller, PATIENT)
    IN IF gate # "ok" THEN gate
       ELSE IF appointment_id \notin Ids(appointments) THEN "NotFound"
       ELSE IF appointments[appointment_id].patient_id # caller THEN "Forbidden"
       ELSE "update"

\* ---------------------------------------------------------------- actions
\* No request is being answered.
Idle == [op |-> "none", caller |-> NoUser, id |-> 0, outcome |-> "none",
         token |-> NoToken]

\* What the caller of a request receives.  id is the appointment_id of a
\* cancel request, else the id of the row the request created (0 for none).
Response(op, caller, id, outcome) ==
    [op |-> op, caller |-> caller, id |-> id, outcome |-> outcome, token |-> NoToken]
\* The same for the authentication endpoints: token is the token login returns,
\* or the bearer token the request carried.
AuthResponse(op, caller, id, outcome, token) ==
    [op |-> op, caller |-> caller, id |-> id, outcome |-> outcome, token |-> token]

\* The clock readings a request may see when its response is built: only a
\* request that reaches its INSERT builds a response from a stored row.
ResponseTimes(adm) == IF adm = "create" THEN now..MaxTime ELSE {now}

\* A booking coroutine: where it stands (pc), the request it serves, the number
\* of appointment rows committed when its conflict query ran (seen), the id of
\* the row it inserted and the answer it gave.
TaskIds == 1..NumTasks
Task(pc, caller, doctor_id, s, e, seen, id, outcome) ==
    [pc |-> pc, caller |-> caller, doctor_id |-> doctor_id, start_time |-> s,
     end_time |-> e, seen |-> seen, id |-> id, outcome |-> outcome]
NoTask == Task("idle", NoUser, NoUser, 0, 0, 0, 0, "none")
\* A coroutine that has returned: its frame is gone, its answer remains.
Done(task, outcome) == Task("done", NoUser, NoUser, 0, 0, task.seen, task.id, outcome)

Init ==
    /\ users = RegisteredUsers
    /\ availabilities = <<>>
    /\ appointments = <<>>
    /\ now = 0
    /\ last = Idle
    /\ tasks = [t \in TaskIds |-> NoTask]

\* Time passes between requests.
Tick ==
    /\ last = Idle
    /\ now < MaxTime
    /\ now' = now + 1
    /\ UNCHANGED <<users, availabilities, appointments, last, tasks>>

\* The client has read the response; its next request may start.
Receive ==
    /\ last # Idle
    /\ last' = Idle
    /\ UNCHANGED <<users, availabilities, appointments, now, tasks>>

\* DoctorService.set_availability called by routers/doctors.set_availability:
\* the availabilities table afterwards and what the caller receives.  The
\* request is validated with the clock at now, the response is built from the
\* stored row with the clock at tr.
service_set_availability(caller, s, e, tr) ==
    LET adm == availability_admission(caller, s, e)
        new == create_availability(availabilities, caller, s, e)
    IN IF adm = "create"
       THEN [availabilities |-> new, id |-> Len(new),
             outcome |-> response_validate(new[Len(new)], tr)]
       ELSE [availabilities |-> availabilities, id |-> 0, outcome |-> adm]

\* PatientService.book_appointment called by routers/appointments.book_appointment.
service_book_appointment(caller, doctor_id, s, e, tr) ==
    LET adm == book_admission(caller, doctor_id, s, e)
        new == create_appointment(appointments, doctor_id, caller, s, e)
    IN IF adm = "create"
       THEN [appointments |-> new, id |-> Len(new),
             outcome |-> response_validate(new[Len(new)], tr)]
       ELSE [appointments |-> appointments, id |-> 0, outcome |-> adm]

\* PatientService.cancel_appointment called by
\* routers/appointments.cancel_appointment.  The only clock reading is the one
\* of the response, t.
service_cancel_appointment(caller, appointment_id, t) ==
    LET adm == cancel_admission(caller, appointment_id)
        new == repo_cancel_appointment(appointments, appointment_id)
    IN IF adm = "update"
       THEN [appointments |-> new,
             outcome |-> response_validate(new[appointment_id], t)]
       ELSE [appointments |-> appointments, outcome |-> adm]

\* POST /doctors/availability, run to completion.
set_availability(caller, s, e, tr) ==
    LET r == service_set_availability(caller, s, e, tr)
    IN /\ last = Idle
       /\ tr \in ResponseTimes(availability_admission(caller, s, e))
       /\ Len(r.availabilities) <= MaxAvailabilities
       /\ availabilities' = r.availabilities
       /\ last' = Response("set_availability", caller, r.id, r.outcome)
       /\ now' = tr
       /\ UNCHANGED <<users, appointments, tasks>>

\* POST /appointments, run to completion.
book_appointment(caller, doctor_id, s, e, tr) ==
    LET r == service_book_appointment(caller, doctor_id, s, e, tr)
    IN /\ last = Idle
       /\ tr \in ResponseTimes(book_admission(caller, doctor_id, s, e))
       /\ Len(r.appointments) <= MaxAppointments
       /\ appointments' = r.appointments
       /\ last' = Response("book_appointment", caller, r.id, r.outcome)
       /\ now' = tr
       /\ UNCHANGED <<users, availabilities, tasks>>

\* DELETE /appointments/{appointment_id}, run to completion.
cancel_appointment(caller, appointment_id) ==
    LET r == service_cancel_appointment(caller, appointment_id, now)
    IN /\ last = Idle
       /\ appointments' = r.appointments
       /\ last' = Response("cancel_appointment", caller, appointment_id, r.outcome)
       /\ UNCHANGED <<users, availabilities, now, tasks>>

\* The request bodies tried for a caller: a caller the role gate rejects gets
\* the same answer whatever body it sends, so one body stands for all.
BodyTimes(caller, role) ==
    IF require_role(caller, role) = "ok" THEN Time ELSE {MaxTime}
BodyDoctors(caller) ==
    IF require_role(caller, PATIENT) = "ok" THEN DoctorIdArgs ELSE {NoUser}

SetAvailability ==
    /\ last = Idle
    /\ \E c \in Callers : \E s, e \in BodyTimes(c, DOCTOR) :
        \E tr \in ResponseTimes(availability_admission(c, s, e)) :
            set_availability(c, s, e, tr)
BookAppointment ==
    /\ last = Idle
    /\ \E c \in Callers : \E d \in BodyDoctors(c) : \E s, e \in BodyTimes(c, PATIENT) :
        \E tr \in ResponseTimes(book_admission(c, d, s, e)) :
            book_appointment(c, d, s, e, tr)
CancelAppointment ==
    /\ last = Idle
    /\ \E c \in Callers, a \in AppointmentIdArgs : cancel_appointment(c, a)

Next == Tick \/ Receive \/ SetAvailability \/ BookAppointment \/ CancelAppointment

Spec == Init /\ [][Next]_vars

\* ------------------------------------------------- concurrent bookings
\* PatientService.book_appointment as the event loop runs it: every await is a
\* point where another request's coroutine may run, every database call one
\* step.  Requests start against a store in which doctor 1 has the window
\* [1, MaxTime) and doctor 2 the window [1, 2).
InitConc ==
    /\ users = RegisteredUsers
    /\ availabilities = <<[doctor_id |-> 1, start_time |-> 1, end_time |-> MaxTime],
                          [doctor_id |-> 2, start_time |-> 1, end_time |-> 2]>>
    /\ appointments = <<>>
    /\ now = 0
    /\ last = Idle
    /\ tasks = [t \in TaskIds |-> NoTask]

\* The request arrives: get_current_patient and the validation of the body.
task_begin(t, caller, doctor_id, s, e) ==
    LET gate == require_role(caller, PATIENT)
        valid == validate_interval(s, e, now)
        req == Task("get_user", caller, doctor_id, s, e, 0, 0, "none")
    IN /\ tasks[t].pc = "idle"
       /\ tasks' = [tasks EXCEPT ![t] =
                        IF gate # "ok" THEN Done(NoTask, gate)
                        ELSE IF valid # "ok" THEN Done(NoTask, valid)
                        ELSE req]
       /\ UNCHANGED <<users, availabilities, appointments, now, last>>

\* await self.user_repo.get_user_by_id(appointment_data.doctor_id)
task_get_user(t) ==
    /\ tasks[t].pc = "get_user"
    /\ tasks' = [tasks EXCEPT ![t] =
                    IF get_user_by_id(tasks[t].doctor_id) # DOCTOR
                    THEN Done(tasks[t], "NotFound")
                    ELSE [tasks[t] EXCEPT !.pc = "check_availability"]]
    /\ UNCHANGED <<users, availabilities, appointments, now, last>>

\* await self._check_time_within_availability(...)
task_check_availability(t) ==
    /\ tasks[t].pc = "check_availability"
    /\ tasks' = [tasks EXCEPT ![t] =
                    IF ~check_time_within_availability(
                            availabilities, tasks[t].doctor_id,
                            tasks[t].start_time, tasks[t].end_time)
                    THEN Done(tasks[t], "OutsideAvailability")
                    ELSE [tasks[t] EXCEPT !.pc = "check_conflict"]]
    /\ UNCHANGED <<users, availabilities, appointments, now, last>>

\* await self.appointment_repo.check_booking_conflict(...)
task_check_conflict(t) ==
    LET conflict == check_booking_conflict(
                        appointments, tasks[t].doctor_id,
                        tasks[t].start_time, tasks[t].end_time)
    IN /\ tasks[t].pc = "check_conflict"
       /\ tasks' = [tasks EXCEPT ![t] =
                        IF conflict = "MultipleResultsFound"
                        THEN Done(tasks[t], "MultipleResultsFound")
                        ELSE IF conflict = "True" THEN Done(tasks[t], "DoubleBooked")
                        ELSE [tasks[t] EXCEPT !.pc = "create",
                                              !.seen = Len(appointments)]]
       /\ UNCHANGED <<users, availabilities, appointments, now, last>>

\* await self.appointment_repo.create_appointment(...): the INSERT and its commit.
task_create(t) ==
    /\ tasks[t].pc = "create"
    /\ Len(appointments) < MaxAppointments
    /\ appointments' = create_appointment(appointments, tasks[t].doctor_id,
                                          tasks[t].caller, tasks[t].start_time,
                                          tasks[t].end_time)
    /\ tasks' = [tasks EXCEPT ![t].pc = "respond", ![t].id = Len(appointments) + 1]
    /\ UNCHANGED <<users, availabilities, now, last>>

\* return AppointmentResponse.model_validate(appointment)
task_respond(t) ==
    /\ tasks[t].pc = "respond"
    /\ tasks' = [tasks EXCEPT ![t] =
                    Done(tasks[t], response_validate(appointments[tasks[t].id], now))]
    /\ UNCHANGED <<users, availabilities, appointments, now, last>>

TaskBegin ==
    \E t \in TaskIds :
        /\ tasks[t].pc = "idle"
        /\ \E c \in Callers : \E d \in BodyDoctors(c) : \E s, e \in BodyTimes(c, PATIENT) :
            task_begin(t, c, d, s, e)
TaskGetUser == \E t \in TaskIds : task_get_user(t)
TaskCheckAvailability == \E t \in TaskIds : task_check_availability(t)
TaskCheckConflict == \E t \in TaskIds : task_check_conflict(t)
TaskCreate == \E t \in TaskIds : task_create(t)
TaskRespond == \E t \in TaskIds : task_respond(t)

NextConc ==
    \/ Tick
    \/ TaskBegin
    \/ TaskGetUser
    \/ TaskCheckAvailability
    \/ TaskCheckConflict
    \/ TaskCreate
    \/ TaskRespond

SpecConc == InitConc /\ [][NextConc]_vars

\* ------------------------------------------- concurrent set-availability
\* DoctorService.set_availability as the event loop runs it, each request with
\* its own database session: the overlap query, the INSERT with its commit and
\* the building of the response are separate steps.
InitAvail ==
    /\ users = RegisteredUsers
    /\ availabilities = <<>>
    /\ appointments = <<>>
    /\ now = 0
    /\ last = Idle
    /\ tasks = [t \in TaskIds |-> NoTask]

\* The request arrives: get_current_doctor and the validation of the body.
avail_begin(t, caller, s, e) ==
    LET gate == require_role(caller, DOCTOR)
        valid == validate_interval(s, e, now)
        req == Task("check_overlap", caller, caller, s, e, 0, 0, "none")
    IN /\ tasks[t].pc = "idle"
       /\ tasks' = [tasks EXCEPT ![t] =
                        IF gate # "ok" THEN Done(NoTask, gate)
                        ELSE IF valid # "ok" THEN Done(NoTask, valid)
                        ELSE req]
       /\ UNCHANGED <<users, availabilities, appointments, now, last>>

\* await self.availability_repo.check_availability_overlap(...)
avail_check_overlap(t) ==
    LET overlap == check_availability_overlap(
                       availabilities, tasks[t].doctor_id,
                       tasks[t].start_time, tasks[t].end_time)
    IN /\ tasks[t].pc = "check_overlap"
       /\ tasks' = [tasks EXCEPT ![t] =
                        IF overlap = "MultipleResultsFound"
                        THEN Done(tasks[t], "MultipleResultsFound")
                        ELSE IF overlap = "True" THEN Done(tasks[t], "OverlapConflict")
                        ELSE [tasks[t] EXCEPT !.pc = "create_availability",
                                              !.seen = Len(availabilities)]]
       /\ UNCHANGED <<users, availabilities, appointments, now, last>>

\* await self.availability_repo.create_availability(...): the INSERT and its commit.
avail_create(t) ==
    /\ tasks[t].pc = "create_availability"
    /\ Len(availabilities) < MaxAvailabilities
    /\ availabilities' = create_availability(availabilities, tasks[t].doctor_id,
                                             tasks[t].start_time, tasks[t].end_time)
    /\ tasks' = [tasks EXCEPT ![t].pc = "respond_availability",
                              ![t].id = Len(availabilities) + 1]
    /\ UNCHANGED <<users, appointments, now, last>>

\* return AvailabilityResponse.model_validate(availability)
avail_respond(t) ==
    /\ tasks[t].pc = "respond_availability"
    /\ tasks' = [tasks EXCEPT ![t] =
                    Done(tasks[t], response_validate(availabilities[tasks[t].id], now))]
    /\ UNCHANGED <<users, availabilities, appointments, now, last>>

\* The client has its answer; the worker takes the next request.
avail_finish(t) ==
    /\ tasks[t].pc = "done"
    /\ tasks' = [tasks EXCEPT ![t] = NoTask]
    /\ UNCHANGED <<users, availabilities, appointments, now, last>>

AvailBegin ==
    \E t \in TaskIds :
        /\ tasks[t].pc = "idle"
        /\ \E c \in Callers : \E s, e \in BodyTimes(c, DOCTOR) : avail_begin(t, c, s, e)
AvailCheckOverlap == \E t \in TaskIds : avail_check_overlap(t)
AvailCreate == \E t \in TaskIds : avail_create(t)
AvailRespond == \E t \in TaskIds : avail_respond(t)
AvailFinish == \E t \in TaskIds : avail_finish(t)

NextAvail ==
    \/ Tick
    \/ AvailBegin
    \/ AvailCheckOverlap
    \/ AvailCreate
    \/ AvailRespond
    \/ AvailFinish

SpecAvail == InitAvail /\ [][NextAvail]_vars

\* ------------------------------------------------ concurrent registration
\* AuthService.register_user as the event loop runs it, each request with its
\* own database session: the existence query and the INSERT are separate
\* steps.  No user is registered at first.
Roles == {DOCTOR, PATIENT}
\* The passwords registration requests carry: a shortest and a longest one.
BodyPasswords == {[i \in 1..n |-> "a"] : n \in {MinPasswordLen, MaxPasswordLen}}

\* A registration coroutine: where it stands, its request, the id of the row it
\* inserted and the answer it gave.
RegTask(pc, email, password, role, id, outcome) ==
    [pc |-> pc, email |-> email, password |-> password, role |-> role,
     id |-> id, outcome |-> outcome]
NoRegTask == RegTask("idle", "none", <<>>, "none", 0, "none")
RegDone(id, outcome) == RegTask("done", "none", <<>>, "none", id, outcome)

InitRegister ==
    /\ users = <<>>
    /\ availabilities = <<>>
    /\ appointments = <<>>
    /\ now = 0
    /\ last = Idle
    /\ tasks = [t \in TaskIds |-> NoRegTask]

\* POST /auth/register arrives with a valid body.
reg_begin(t, email, password, role) ==
    /\ tasks[t].pc = "idle"
    /\ tasks' = [tasks EXCEPT ![t] =
                    RegTask("get_user_by_email", email, password, role, 0, "none")]
    /\ UNCHANGED <<users, availabilities, appointments, now, last>>

\* existing_user = await self.user_repo.get_user_by_email(user_data.email)
reg_get_user_by_email(t) ==
    /\ tasks[t].pc = "get_user_by_email"
    /\ tasks' = [tasks EXCEPT ![t] =
                    IF get_user_by_email(users, tasks[t].email) # NoUser
                    THEN RegDone(0, "DuplicateEmail")
                    ELSE [tasks[t] EXCEPT !.pc = "create_user"]]
    /\ UNCHANGED <<users, availabilities, appointments, now, last>>

\* get_password_hash, await self.user_repo.create_user(...) and the response.
reg_create_user(t, salt, build) ==
    LET r == create_user(users, tasks[t].email,
                         get_password_hash(tasks[t].password, salt, build),
                         tasks[t].role)
    IN /\ tasks[t].pc = "create_user"
       /\ Len(r.users) <= MaxUsers
       /\ users' = r.users
       /\ tasks' = [tasks EXCEPT ![t] = RegDone(r.id, r.outcome)]
       /\ UNCHANGED <<availabilities, appointments, now, last>>

\* The client has its answer; the worker takes the next request.
reg_finish(t) ==
    /\ tasks[t].pc = "done"
    /\ tasks' = [tasks EXCEPT ![t] = NoRegTask]
    /\ UNCHANGED <<users, availabilities, appointments, now, last>>

RegBegin ==
    \E t \in TaskIds, email \in Emails, password \in BodyPasswords, role \in Roles :
        reg_begin(t, email, password, role)
RegGetUserByEmail == \E t \in TaskIds : reg_get_user_by_email(t)
RegCreateUser ==
    \E t \in TaskIds, salt \in Salts, build \in BcryptBuilds : reg_create_user(t, salt, build)
RegFinish == \E t \in TaskIds : reg_finish(t)

NextRegister == RegBegin \/ RegGetUserByEmail \/ RegCreateUser \/ RegFinish

SpecRegister == InitRegister /\ [][NextRegister]_vars

\* ---------------------------------------------------------------- listings
\* start_date: Optional[datetime] = None
NoDate == -1
StartDates == Clock \cup {NoDate}

\* ORDER BY start_time of the rows ids of a table, as a sequence of ids; rows
\* with equal start_time come in the order of their primary keys.
RECURSIVE order_by_start_time(_, _)
order_by_start_time(table, ids) ==
    IF ids = {} THEN <<>>
    ELSE LET first == CHOOSE i \in ids :
                         \A j \in ids :
                            \/ table[i].start_time < table[j].start_time
                            \/ (table[i].start_time = table[j].start_time /\ i <= j)
         IN <<first>> \o order_by_start_time(table, ids \ {first})

\* Variant: the doctor's listing does not filter on the status.
get_doctor_appointments_any_status(appts, doctor_id, start_date) ==
    order_by_start_time(appts,
        {i \in DOMAIN appts :
            /\ appts[i].doctor_id = doctor_id
            /\ start_date # NoDate => appts[i].start_time >= start_date})

\* AppointmentRepository.get_appointment_by_id: the id of the row, 0 for None.
get_appointment_by_id(appts, appointment_id) ==
    IF appointment_id \in Ids(appts) THEN appointment_id ELSE 0

\* AppointmentRepository.get_doctor_appointments
get_doctor_appointments(appts, doctor_id, start_date) ==
    order_by_start_time(appts,
        {i \in Ids(appts) :
            /\ appts[i].doctor_id = doctor_id
            /\ appts[i].status = CONFIRMED
            /\ start_date # NoDate => appts[i].start_time >= start_date})

\* AppointmentRepository.get_patient_appointments
get_patient_appointments(appts, patient_id, start_date) ==
    order_by_start_time(appts,
        {i \in Ids(appts) :
            /\ appts[i].patient_id = patient_id
            /\ appts[i].status = CONFIRMED
            /\ start_date # NoDate => appts[i].start_time >= start_date})

\* AvailabilityRepository.get_doctor_availabilities with its start_date.
list_doctor_availabilities(avs, doctor_id, start_date) ==
    order_by_start_time(avs,
        {i \in Ids(avs) :
            /\ avs[i].doctor_id = doctor_id
            /\ start_date # NoDate => avs[i].start_time >= start_date})

\* `start_date or datetime.now()` at clock t.
start_date_or_now(start_date, t) == IF start_date = NoDate THEN t ELSE start_date

\* [XResponse.model_validate(a) for a in rows] at clock t: the list, or the
\* ValidationError of the first row that does not validate.
validate_all(table, rows, t) ==
    IF \A k \in DOMAIN rows : response_validate(table[rows[k]], t) = "ok"
    THEN [rows |-> rows, outcome |-> "ok"]
    ELSE [rows |-> <<>>, outcome |-> "ResponseValidationError"]

\* DoctorService.get_my_appointments
doctor_get_my_appointments(doctor_id, start_date, t) ==
    validate_all(appointments,
                 get_doctor_appointments(appointments, doctor_id,
                                         start_date_or_now(start_date, t)), t)

\* PatientService.get_my_appointments
patient_get_my_appointments(patient_id, start_date, t) ==
    validate_all(appointments,
                 get_patient_appointments(appointments, patient_id,
                                          start_date_or_now(start_date, t)), t)

\* PatientService.get_doctor_availability
get_doctor_availability(doctor_id, start_date, t) ==
    IF get_user_by_id(doctor_id) # DOCTOR THEN [rows |-> <<>>, outcome |-> "NotFound"]
    ELSE validate_all(availabilities,
                      list_doctor_availabilities(availabilities, doctor_id,
                                                 start_date_or_now(start_date, t)), t)

\* DoctorService.get_my_availabilities: start_date is passed on as it is.
get_my_availabilities(doctor_id, start_date, t) ==
    validate_all(availabilities,
                 list_doctor_availabilities(availabilities, doctor_id, start_date), t)

\* routers/appointments.get_my_appointments for the authenticated user caller:
\* whatever the role of the caller, the listing of PatientService is returned.
get_my_appointments(caller, start_date, t) ==
    patient_get_my_appointments(caller, start_date, t)

\* What a listing endpoint answers after its gate.
Listed(op, caller, gate, r) ==
    /\ last = Idle
    /\ last' = Response(op, caller, Len(r.rows), IF gate # "ok" THEN gate ELSE r.outcome)
    /\ UNCHANGED <<users, availabilities, appointments, now, tasks>>

\* GET /doctors/my-appointments
ListDoctorAppointments ==
    /\ last = Idle
    /\ \E c \in Callers, sd \in StartDates :
        LET gate == require_role(c, DOCTOR)
        IN Listed("doctor_get_my_appointments", c, gate,
                  IF gate = "ok" THEN doctor_get_my_appointments(c, sd, now)
                  ELSE [rows |-> <<>>, outcome |-> gate])

\* GET /appointments/my-appointments: any authenticated user.
ListPatientAppointments ==
    /\ last = Idle
    /\ \E c \in Callers, sd \in StartDates :
        LET gate == IF c \in UserIds THEN "ok" ELSE "Unauthenticated"
        IN Listed("patient_get_my_appointments", c, gate,
                  IF gate = "ok" THEN get_my_appointments(c, sd, now)
                  ELSE [rows |-> <<>>, outcome |-> gate])

\* GET /doctors/{doctor_id}/availability: no authentication.
ListDoctorAvailability ==
    /\ last = Idle
    /\ \E d \in DoctorIdArgs, sd \in StartDates :
        Listed("get_doctor_availability", NoUser, "ok", get_doctor_availability(d, sd, now))

NextList ==
    \/ Tick
    \/ Receive
    \/ BookAppointment
    \/ CancelAppointment
    \/ ListDoctorAppointments
    \/ ListPatientAppointments
    \/ ListDoctorAvailability

\* The listings are read from stores that bookings and cancellations made,
\* starting with the windows of InitConc.
SpecList == InitConc /\ [][NextList]_vars

\* ------------------------------------------------------- authentication
\* Registration, login and the resolution of bearer tokens, one request at a
\* time.  No user is registered at first.
InitAuth ==
    /\ users = <<>>
    /\ availabilities = <<>>
    /\ appointments = <<>>
    /\ now = 0
    /\ last = Idle
    /\ tasks = [t \in TaskIds |-> NoRegTask]

\* AuthService.register_user: the users table afterwards, the id of the new
\* user and what the caller receives.
service_register_user(email, password, role, salt, build) ==
    IF get_user_by_email(users, email) # NoUser
    THEN [users |-> users, id |-> 0, outcome |-> "DuplicateEmail"]
    ELSE create_user(users, email, get_password_hash(password, salt, build), role)

\* AuthService.authenticate_user: the user ("ok"), None, or the exception
\* bcrypt.checkpw raised.
authenticate_user(email, password, build) ==
    LET user == get_user_by_email(users, email)
        verified == verify_password(password, users[user].password_hash, build)
    IN IF user = NoUser THEN [user |-> NoUser, outcome |-> "None"]
       ELSE IF verified = "ValueError" THEN [user |-> NoUser, outcome |-> "ValueError"]
       ELSE IF verified = "False" THEN [user |-> NoUser, outcome |-> "None"]
       ELSE [user |-> user, outcome |-> "ok"]

\* AuthService.login at clock t.
service_login(email, password, build, t) ==
    LET a == authenticate_user(email, password, build)
    IN IF a.outcome = "ValueError"
       THEN [user |-> NoUser, outcome |-> "ValueError", token |-> NoToken]
       ELSE IF a.outcome = "None"
       THEN [user |-> NoUser, outcome |-> "Unauthenticated", token |-> NoToken]
       ELSE [user |-> a.user, outcome |-> "ok",
             token |-> create_access_token(
                           [sub |-> users[a.user].email, role |-> users[a.user].role], t)]

\* dependencies.get_current_user at clock t: the id of the user the bearer
\* token resolves to, NoUser for the HTTP 401.
get_current_user(token, t) ==
    LET payload == decode_access_token(token, t)
    IN IF payload = NoToken THEN NoUser
       ELSE IF payload.sub = "none" THEN NoUser
       ELSE get_user_by_email(users, payload.sub)

\* POST /auth/register, run to completion.
register(email, password, role, salt, build) ==
    LET r == service_register_user(email, password, role, salt, build)
    IN /\ last = Idle
       /\ Len(r.users) <= MaxUsers
       /\ users' = r.users
       /\ last' = Response("register", NoUser, r.id, r.outcome)
       /\ UNCHANGED <<availabilities, appointments, now, tasks>>

\* POST /auth/login
login(email, password, build) ==
    LET r == service_login(email, password, build, now)
    IN /\ last = Idle
       /\ last' = AuthResponse("login", r.user, 0, r.outcome, r.token)
       /\ UNCHANGED <<users, availabilities, appointments, now, tasks>>

\* A request to an endpoint that depends on get_current_user.
current_user(token) ==
    LET user == get_current_user(token, now)
    IN /\ last = Idle
       /\ last' = AuthResponse("get_current_user", user, 0,
                               IF user = NoUser THEN "Unauthenticated" ELSE "ok", token)
       /\ UNCHANGED <<users, availabilities, appointments, now, tasks>>

\* routers/auth.forgot_password: the ForgotPasswordResponse for a users table.
forgot_password(us, email) ==
    IF get_user_by_email(us, email) = NoUser
    THEN [message |-> "If the email exists, a reset link has been sent",
          reset_token |-> "mock_reset_token_123456"]
    ELSE [message |-> "Password reset link sent to your email",
          reset_token |-> "mock_reset_token_123456"]

\* POST /auth/forgot-password
ForgotPassword ==
    /\ last = Idle
    /\ \E email \in Emails :
        /\ last' = Response("forgot_password", get_user_by_email(users, email), 0,
                            forgot_password(users, email).message)
        /\ UNCHANGED <<users, availabilities, appointments, now, tasks>>

\* The bearer tokens a client can present at clock t: a token the service
\* issued at some earlier reading of the clock, or one signed with another key.
BearerTokens(t) ==
    {create_access_token([sub |-> sub, role |-> role], t0) :
        sub \in Emails \cup {"none"}, role \in Roles, t0 \in 0..t}
    \cup {Token(sub, role, exp, "other_key") :
            sub \in Emails, role \in {PATIENT}, exp \in {MaxTime + ExpireTicks}}

Register ==
    /\ last = Idle
    /\ \E email \in Emails, password \in BodyPasswords, role \in Roles,
          salt \in Salts, build \in BcryptBuilds :
            register(email, password, role, salt, build)
Login ==
    /\ last = Idle
    /\ \E email \in Emails, password \in Passwords, build \in BcryptBuilds :
            login(email, password, build)
CurrentUser ==
    /\ last = Idle
    /\ \E token \in BearerTokens(now) : current_user(token)

NextAuth == Tick \/ Receive \/ Register \/ Login \/ CurrentUser \/ ForgotPassword

SpecAuth == InitAuth /\ [][NextAuth]_vars

\* ---------------------------------------------------------------- claims
Doctors == {u \in UserIds : users[u].role = DOCTOR}
Patients == {u \in UserIds : users[u].role = PATIENT}

\* Half-open overlap of two stored rows.
Overlap(a, b) == a.start_time < b.end_time /\ a.end_time > b.start_time

ConfirmedOf(d) ==
    {i \in Ids(appointments) :
        appointments[i].doctor_id = d /\ appointments[i].status = CONFIRMED}

WindowsOf(d) == {i \in Ids(availabilities) : availabilities[i].doctor_id = d}

\* Some single window of doctor d contains [s, e).
Covered(d, s, e) ==
    \E w \in WindowsOf(d) :
        availabilities[w].start_time <= s /\ availabilities[w].end_time >= e

\* Appointment i meets [s, e) in at least one instant.
Meets(i, s, e) == appointments[i].start_time < e /\ appointments[i].end_time > s

\* The row a booking of [s, e) with doctor d by patient p stores.
BookedRow(p, d, s, e) ==
    [doctor_id |-> d, patient_id |-> p, start_time |-> s, end_time |-> e,
     status |-> CONFIRMED]

\* C1: after any sequence of completed book / cancel / set-availability
\* requests, the Confirmed appointments of one doctor are pairwise
\* non-overlapping.
C1_NoDoubleBooking ==
    \A d \in UserIds : \A i, j \in ConfirmedOf(d) :
        i # j => ~Overlap(appointments[i], appointments[j])

\* Two Confirmed appointments of one doctor are stored, the second just booked.
C1_Witness ==
    /\ last.op = "book_appointment" /\ last.id # 0
    /\ \E i \in Ids(appointments) :
        /\ i # last.id
        /\ appointments[i].doctor_id = appointments[last.id].doctor_id
        /\ appointments[i].status = CONFIRMED
        /\ appointments[last.id].status = CONFIRMED

\* C2: when booking requests for overlapping intervals of one doctor run
\* concurrently, two overlapping Confirmed appointments of that doctor can be
\* stored, both requests having passed the conflict check (C2_Witness is
\* reached); and this is the only way: an appointment stored over an earlier
\* Confirmed appointment of its doctor was inserted by a request whose conflict
\* query ran before that earlier appointment was committed.
C2_OverlapOnlyByRace ==
    \A t \in TaskIds :
        tasks[t].id # 0 =>
            \A i \in Ids(appointments) :
                (/\ i < tasks[t].id
                 /\ appointments[i].doctor_id = appointments[tasks[t].id].doctor_id
                 /\ appointments[i].status = CONFIRMED
                 /\ Overlap(appointments[i], appointments[tasks[t].id]))
                    => tasks[t].seen < i

\* Two requests passed the conflict check and inserted, and their rows are
\* overlapping Confirmed appointments of one doctor.
C2_Witness ==
    \E t, u \in TaskIds :
        /\ t # u
        /\ tasks[t].id # 0 /\ tasks[u].id # 0
        /\ appointments[tasks[t].id].doctor_id = appointments[tasks[u].id].doctor_id
        /\ appointments[tasks[t].id].status = CONFIRMED
        /\ appointments[tasks[u].id].status = CONFIRMED
        /\ Overlap(appointments[tasks[t].id], appointments[tasks[u].id])

\* C3: for an existing doctor and an interval with start < end and start in the
\* future, a booking run alone stores exactly one new Confirmed appointment for
\* that patient, doctor and interval if and only if one window of the doctor
\* contains the interval and no Confirmed appointment of the doctor meets it;
\* it is answered with success when admitted (the start not having passed when
\* the response is built) and never when not admitted.
C3_BookIffCoveredAndFree ==
    last = Idle =>
        \A p \in Patients, d \in Doctors, s, e \in Time, tr \in Clock :
            (s < e /\ s > now /\ tr >= now) =>
                LET r == service_book_appointment(p, d, s, e, tr)
                    admissible ==
                        /\ Covered(d, s, e)
                        /\ \A i \in ConfirmedOf(d) : ~Meets(i, s, e)
                IN IF admissible
                   THEN /\ r.appointments = Append(appointments, BookedRow(p, d, s, e))
                        /\ tr <= s => r.outcome = "ok"
                   ELSE /\ r.appointments = appointments
                        /\ r.outcome # "ok"

\* A booking with a future start was answered with success and its row is stored.
C3_Witness ==
    /\ last.op = "book_appointment" /\ last.outcome = "ok" /\ last.id # 0
    /\ appointments[last.id].status = CONFIRMED
    /\ appointments[last.id].patient_id = last.caller
    /\ appointments[last.id].start_time >= now

\* A request that passed the role gate, the interval validation, the doctor
\* lookup and the coverage check.
PassesToConflictCheck(p, d, s, e) ==
    /\ p \in Patients /\ d \in Doctors
    /\ s >= now /\ s < e
    /\ Covered(d, s, e)

\* C4: a booking that passes doctor resolution, interval validation and
\* coverage, and whose interval meets one or more Confirmed appointments of the
\* doctor, is rejected as DoubleBooked and creates no appointment.
C4_OverlapIsDoubleBooked ==
    last = Idle =>
        \A p \in Patients, d \in Doctors, s, e \in Time :
            (/\ PassesToConflictCheck(p, d, s, e)
             /\ \E i \in ConfirmedOf(d) : Meets(i, s, e)) =>
                LET r == service_book_appointment(p, d, s, e, now)
                IN r.outcome = "DoubleBooked" /\ r.appointments = appointments

\* C5: touching intervals do not conflict: with a window containing [s, e) and
\* every Confirmed appointment of the doctor ending at or before s or starting
\* at or after e, at least one of them touching [s, e), the booking is stored
\* Confirmed beside them and answered with success.
C5_TouchingDoesNotConflict ==
    last = Idle =>
        \A p \in Patients, d \in Doctors, s, e \in Time, tr \in Clock :
            (/\ PassesToConflictCheck(p, d, s, e) /\ tr >= now
             /\ \A i \in ConfirmedOf(d) :
                    appointments[i].end_time <= s \/ appointments[i].start_time >= e
             /\ \E i \in ConfirmedOf(d) :
                    appointments[i].end_time = s \/ appointments[i].start_time = e) =>
                LET r == service_book_appointment(p, d, s, e, tr)
                IN /\ r.appointments = Append(appointments, BookedRow(p, d, s, e))
                   /\ tr <= s => r.outcome = "ok"

\* An appointment was just booked that starts where a Confirmed appointment of
\* the same doctor ends, or ends where one starts.
C5_Witness ==
    /\ last.op = "book_appointment" /\ last.outcome = "ok" /\ last.id # 0
    /\ \E i \in ConfirmedOf(appointments[last.id].doctor_id) :
        /\ i # last.id
        /\ \/ appointments[i].end_time = appointments[last.id].start_time
           \/ appointments[i].start_time = appointments[last.id].end_time
    /\ appointments[last.id].status = CONFIRMED

\* C6: a Cancelled appointment never causes a conflict: a booking covered by a
\* window whose interval meets only Cancelled appointments of the doctor is
\* stored Confirmed and answered with success, and the Cancelled rows stay as
\* they are.
C6_CancelledDoesNotConflict ==
    last = Idle =>
        \A p \in Patients, d \in Doctors, s, e \in Time, tr \in Clock :
            (/\ PassesToConflictCheck(p, d, s, e) /\ tr >= now
             /\ \E i \in Ids(appointments) :
                    /\ appointments[i].doctor_id = d
                    /\ appointments[i].status = CANCELLED
                    /\ Meets(i, s, e)
             /\ \A i \in Ids(appointments) :
                    (appointments[i].doctor_id = d /\ Meets(i, s, e))
                        => appointments[i].status = CANCELLED) =>
                LET r == service_book_appointment(p, d, s, e, tr)
                IN /\ r.appointments = Append(appointments, BookedRow(p, d, s, e))
                   /\ tr <= s => r.outcome = "ok"
                   /\ \A i \in Ids(appointments) : r.appointments[i] = appointments[i]

\* An appointment was just booked over the interval of a Cancelled appointment
\* of the same doctor, which is still stored as Cancelled.
C6_Witness ==
    /\ last.op = "book_appointment" /\ last.outcome = "ok" /\ last.id # 0
    /\ \E i \in Ids(appointments) :
        /\ appointments[i].status = CANCELLED
        /\ appointments[i].doctor_id = appointments[last.id].doctor_id
        /\ appointments[i].start_time = appointments[last.id].start_time
        /\ appointments[i].end_time = appointments[last.id].end_time

\* C7: coverage needs one window and windows are never merged: a window that
\* begins where another of the same doctor ends is stored as a row of its own,
\* the rows already stored unchanged; and a booking that passes the role gate,
\* the interval validation and the doctor lookup but lies in no single window
\* of the doctor is rejected as OutsideAvailability and creates no appointment.
C7_SingleWindowCoverage ==
    last = Idle =>
        /\ \A d \in Doctors, s, e \in Time :
            (/\ s >= now /\ s < e
             /\ \A w \in WindowsOf(d) :
                    availabilities[w].end_time <= s \/ availabilities[w].start_time >= e) =>
                service_set_availability(d, s, e, now).availabilities
                    = Append(availabilities,
                             [doctor_id |-> d, start_time |-> s, end_time |-> e])
        /\ \A p \in Patients, d \in Doctors, s, e \in Time :
            (s >= now /\ s < e /\ ~Covered(d, s, e)) =>
                LET r == service_book_appointment(p, d, s, e, now)
                IN r.outcome = "OutsideAvailability" /\ r.appointments = appointments

\* Two windows [a, b) and [b, c) of one doctor are stored and a booking was
\* just rejected as outside availability, no appointment being stored.
C7_Witness ==
    /\ last.op = "book_appointment" /\ last.outcome = "OutsideAvailability"
    /\ appointments = <<>>
    /\ \E v, w \in Ids(availabilities) :
        /\ v # w
        /\ availabilities[v].doctor_id = availabilities[w].doctor_id
        /\ availabilities[v].end_time = availabilities[w].start_time

\* The request just answered was a cancel of a stored appointment by the
\* patient who owns it.
OwnerCancelled ==
    /\ last.op = "cancel_appointment"
    /\ last.id \in Ids(appointments)
    /\ appointments[last.id].patient_id = last.caller

\* C8: whatever the time of the request, a cancel by the patient who owns the
\* appointment returns the appointment with status Cancelled, the stored status
\* being Cancelled.
C8_OwnerCancelSucceeds ==
    OwnerCancelled =>
        last.outcome = "ok" /\ appointments[last.id].status = CANCELLED

\* C9: a cancel by a patient is rejected as NotFound when no appointment has
\* the id and as Forbidden when the appointment belongs to another patient, no
\* status changing; and a status only ever changes to Cancelled, by a cancel
\* request of the appointment's own patient.
C9_CancelRejections ==
    [][/\ (last'.op = "cancel_appointment" /\ last'.caller \in Patients) =>
            /\ last'.id \notin Ids(appointments) =>
                 (last'.outcome = "NotFound" /\ appointments' = appointments)
            /\ (/\ last'.id \in Ids(appointments)
                /\ appointments[last'.id].patient_id # last'.caller) =>
                 (last'.outcome = "Forbidden" /\ appointments' = appointments)
       /\ \A i \in Ids(appointments) :
            appointments'[i].status # appointments[i].status =>
                /\ appointments'[i].status = CANCELLED
                /\ last'.op = "cancel_appointment"
                /\ last'.id = i
                /\ last'.caller = appointments[i].patient_id
      ]_vars

\* A patient's cancel of another patient's Confirmed appointment was rejected
\* as Forbidden.
C9_Witness ==
    /\ last.op = "cancel_appointment" /\ last.outcome = "Forbidden"
    /\ last.caller \in Patients
    /\ last.id \in Ids(appointments)
    /\ appointments[last.id].patient_id # last.caller
    /\ appointments[last.id].status = CONFIRMED

\* C10: a cancel by the owning patient of an appointment that is already
\* Cancelled succeeds and leaves the store as the first cancel left it.
C10_CancelIdempotent ==
    [][(/\ last'.op = "cancel_appointment"
        /\ last'.id \in Ids(appointments)
        /\ appointments[last'.id].patient_id = last'.caller
        /\ appointments[last'.id].status = CANCELLED) =>
            /\ last'.outcome = "ok"
            /\ appointments' = appointments
            /\ availabilities' = availabilities
            /\ users' = users
      ]_vars

\* C11: every appointment is created with status Confirmed, the only status
\* change a step makes is Confirmed -> Cancelled, and a Cancelled appointment
\* is Cancelled after every step; rows are never removed and no other field of
\* a stored row changes.
C11_StatusLifecycle ==
    [][/\ Len(appointments') >= Len(appointments)
       /\ \A i \in Ids(appointments') \ Ids(appointments) :
            appointments'[i].status = CONFIRMED
       /\ \A i \in Ids(appointments) :
            /\ appointments[i].status = CANCELLED => appointments'[i].status = CANCELLED
            /\ appointments'[i].status # appointments[i].status =>
                    (appointments[i].status = CONFIRMED /\ appointments'[i].status = CANCELLED)
            /\ [appointments'[i] EXCEPT !.status = CONFIRMED]
                    = [appointments[i] EXCEPT !.status = CONFIRMED]
      ]_vars

\* A Cancelled appointment was cancelled once more by its patient and another
\* appointment was booked after it was created: it is still Cancelled.
C11_Witness ==
    /\ last.op = "cancel_appointment"
    /\ last.id \in Ids(appointments)
    /\ last.outcome \notin {"NotFound", "Forbidden", "Unauthenticated"}
    /\ appointments[last.id].status = CANCELLED
    /\ \E j \in Ids(appointments) : j > last.id /\ appointments[j].status = CONFIRMED

\* C12: a set-availability request of a doctor for a valid future interval is
\* rejected as OverlapConflict, nothing being stored, when the interval
\* overlaps one or more windows of that doctor; otherwise exactly the new
\* window is stored, whatever the windows of other doctors.
C12_OverlapIsRejected ==
    last = Idle =>
        \A d \in Doctors, s, e \in Time :
            (s >= now /\ s < e) =>
                LET r == service_set_availability(d, s, e, now)
                IN IF \E w \in WindowsOf(d) :
                          availabilities[w].start_time < e /\ availabilities[w].end_time > s
                   THEN r.outcome = "OverlapConflict" /\ r.availabilities = availabilities
                   ELSE /\ r.outcome = "ok"
                        /\ r.availabilities =
                              Append(availabilities,
                                     [doctor_id |-> d, start_time |-> s, end_time |-> e])

\* C13: in every reachable state, set-availability requests of one doctor
\* interleaving between their overlap query and their INSERT included, the
\* windows of one doctor are pairwise non-overlapping and each window has
\* end_time > start_time.
C13_WindowsDisjoint ==
    /\ \A w \in Ids(availabilities) :
            availabilities[w].end_time > availabilities[w].start_time
    /\ \A d \in UserIds : \A v, w \in WindowsOf(d) :
            v # w => ~Overlap(availabilities[v], availabilities[w])

\* C14: a caller whose stored role is Patient is rejected as Forbidden by
\* set-availability, a caller whose stored role is Doctor is rejected as
\* Forbidden by book and by cancel, and a caller whose token is invalid or
\* names no user is rejected as Unauthenticated by all three, the store
\* staying as it is; so every window is owned by a Doctor and every
\* appointment links a Doctor as doctor and a Patient as patient.
C14_RoleGating ==
    /\ \A w \in Ids(availabilities) : availabilities[w].doctor_id \in Doctors
    /\ \A i \in Ids(appointments) :
            appointments[i].doctor_id \in Doctors /\ appointments[i].patient_id \in Patients
    /\ last = Idle =>
        \A c \in Callers, s, e \in Time, tr \in Clock :
            LET expected == IF c = NoUser THEN "Unauthenticated" ELSE "Forbidden"
                sa == service_set_availability(c, s, e, tr)
            IN /\ c \notin Doctors =>
                    sa.outcome = expected /\ sa.availabilities = availabilities
               /\ c \notin Patients =>
                    /\ \A d \in DoctorIdArgs :
                          LET b == service_book_appointment(c, d, s, e, tr)
                          IN b.outcome = expected /\ b.appointments = appointments
                    /\ \A a \in AppointmentIdArgs :
                          LET x == service_cancel_appointment(c, a, tr)
                          IN x.outcome = expected /\ x.appointments = appointments

\* A doctor's cancel of a stored Confirmed appointment was answered Forbidden,
\* windows and appointments being stored.
C14_Witness ==
    /\ last.op = "cancel_appointment" /\ last.outcome = "Forbidden"
    /\ last.caller \in Doctors
    /\ last.id \in Ids(appointments)
    /\ appointments[last.id].status = CONFIRMED
    /\ appointments[last.id].doctor_id = last.caller
    /\ availabilities # <<>>

\* C15: in every reachable state, registrations of one email interleaving
\* between the existence query and the INSERT included, no two users have the
\* same email.
C15_UniqueEmail ==
    \A u, v \in UserIds : u # v => users[u].email # users[v].email

\* Two registrations of one email both passed the existence query, and the
\* INSERT of the second was refused: one user has the email.
C15_Witness ==
    \E t, u \in TaskIds :
        /\ t # u
        /\ tasks[t].pc = "done" /\ tasks[t].outcome = "ok"
        /\ tasks[u].pc = "done" /\ tasks[u].outcome = "IntegrityError"
        /\ users # <<>>

\* C16: every registration with an email that is registered when the request
\* is answered, one running concurrently with the registration that took the
\* email included, fails with DuplicateEmail and leaves the users as they are.
C16_DuplicateEmailRejected ==
    [][\A t \in TaskIds :
          (/\ tasks[t].pc \in {"get_user_by_email", "create_user"}
           /\ tasks'[t].pc = "done"
           /\ get_user_by_email(users, tasks[t].email) # NoUser) =>
              (tasks'[t].outcome = "DuplicateEmail" /\ users' = users)
      ]_vars

\* C17: authenticate_user returns the user exactly when a user has the email
\* and the password verifies against that user's stored hash, and None
\* otherwise; login then returns a token whose subject is the user's email and
\* whose role is the user's stored role, and fails as Unauthenticated
\* otherwise, for an unknown email and for a wrong password alike.
C17_AuthenticateAndLogin ==
    last = Idle =>
        \A email \in Emails, password \in Passwords, build \in BcryptBuilds :
            LET u == get_user_by_email(users, email)
                a == authenticate_user(email, password, build)
                r == service_login(email, password, build, now)
                accepted ==
                    /\ u # NoUser
                    /\ verify_password(password, users[u].password_hash, build) = "True"
            IN IF accepted
               THEN /\ a.outcome = "ok" /\ a.user = u
                    /\ r.outcome = "ok"
                    /\ r.token.sub = email /\ r.token.role = users[u].role
               ELSE /\ a.outcome = "None"
                    /\ r.outcome = "Unauthenticated" /\ r.token = NoToken

\* C18: a token made by create_access_token from (sub, role) decodes to the same
\* sub and role while the clock is before its expiry, the issue time plus the
\* configured life; decoding fails once the expiry has passed, and for a token
\* signed with another key.
C18_TokenRoundTrip ==
    \A sub \in Emails, role \in Roles, t0 \in 0..now :
        LET token == create_access_token([sub |-> sub, role |-> role], t0)
            payload == decode_access_token(token, now)
        IN /\ token.exp = t0 + ExpireTicks
           /\ now < token.exp => (payload.sub = sub /\ payload.role = role)
           /\ now > token.exp => payload = NoToken
           /\ decode_access_token([token EXCEPT !.key = "other_key"], now) = NoToken

\* A request carried a token of the service for a registered user whose expiry
\* had passed, and was answered 401.
C18_Witness ==
    /\ last.op = "get_current_user" /\ last.outcome = "Unauthenticated"
    /\ last.token.key = SECRET_KEY
    /\ last.token.exp < now
    /\ get_user_by_email(users, last.token.sub) # NoUser

\* C19: every password accepted at registration verifies against its own hash,
\* no other password verifies against that hash, and verify_password reads of
\* its input what get_password_hash read.
C19_HashRoundTrip ==
    last = Idle =>
        \A email \in Emails, role \in Roles, build \in BcryptBuilds, salt \in Salts,
           p \in Passwords :
            LET r == service_register_user(email, p, role, salt, build)
                hashed == r.users[r.id].password_hash
            IN r.outcome = "ok" =>
                /\ verify_password(p, hashed, build) = "True"
                /\ \A q \in Passwords \ {p} : verify_password(q, hashed, build) = "False"

\* The ids in rows are in ascending order of start_time.
Ascending(table, rows) ==
    \A k \in 1..(Len(rows) - 1) :
        table[rows[k]].start_time <= table[rows[k + 1]].start_time

\* rows lists exactly the ids of wanted, each once.
ListsExactly(rows, wanted) ==
    /\ {rows[k] : k \in DOMAIN rows} = wanted
    /\ Len(rows) = Cardinality(wanted)

\* The filter of a listing: on or after start_date, no filter when omitted.
OnOrAfter(row, start_date) == start_date = NoDate \/ row.start_time >= start_date

\* C20: the listings of a doctor's appointments, of a patient's appointments
\* and of a doctor's windows succeed and return, in ascending order of
\* start_time, exactly the (Confirmed) records of that doctor or patient with
\* start_time >= the filter when one is given, and all of them whatever their
\* start_time when it is omitted.
C20_Listings ==
    last = Idle =>
        \A sd \in StartDates :
            /\ \A d \in Doctors :
                LET r == doctor_get_my_appointments(d, sd, now)
                    w == get_doctor_availability(d, sd, now)
                    m == get_my_availabilities(d, sd, now)
                    windows == {i \in WindowsOf(d) : OnOrAfter(availabilities[i], sd)}
                IN /\ r.outcome = "ok"
                   /\ Ascending(appointments, r.rows)
                   /\ ListsExactly(r.rows,
                          {i \in ConfirmedOf(d) : OnOrAfter(appointments[i], sd)})
                   /\ w.outcome = "ok" /\ m.outcome = "ok"
                   /\ Ascending(availabilities, w.rows) /\ Ascending(availabilities, m.rows)
                   /\ ListsExactly(w.rows, windows) /\ ListsExactly(m.rows, windows)
            /\ \A p \in Patients :
                LET r == patient_get_my_appointments(p, sd, now)
                IN /\ r.outcome = "ok"
                   /\ Ascending(appointments, r.rows)
                   /\ ListsExactly(r.rows,
                          {i \in Ids(appointments) :
                              /\ appointments[i].patient_id = p
                              /\ appointments[i].status = CONFIRMED
                              /\ OnOrAfter(appointments[i], sd)})

\* The repository queries alone: ordered, and exactly the Confirmed rows (the
\* rows, for windows) of the doctor or patient on or after the filter.
RepositoryListings ==
    \A sd \in StartDates, u \in UserIds :
        LET da == get_doctor_appointments(appointments, u, sd)
            pa == get_patient_appointments(appointments, u, sd)
            av == list_doctor_availabilities(availabilities, u, sd)
        IN /\ Ascending(appointments, da) /\ Ascending(appointments, pa)
           /\ Ascending(availabilities, av)
           /\ ListsExactly(da, {i \in ConfirmedOf(u) : OnOrAfter(appointments[i], sd)})
           /\ ListsExactly(pa, {i \in Ids(appointments) :
                                   /\ appointments[i].patient_id = u
                                   /\ appointments[i].status = CONFIRMED
                                   /\ OnOrAfter(appointments[i], sd)})
           /\ ListsExactly(av, {i \in WindowsOf(u) : OnOrAfter(availabilities[i], sd)})

\* C21: GET /appointments/my-appointments lists by the role of the caller: to
\* a Doctor the Confirmed appointments on or after the filter in which the
\* caller is the doctor, to a Patient those in which the caller is the patient.
C21_MyAppointmentsByRole ==
    last = Idle =>
        \A sd \in StartDates :
            /\ \A d \in Doctors :
                LET r == get_my_appointments(d, sd, now)
                IN r.outcome = "ok" =>
                     ListsExactly(r.rows,
                        {i \in ConfirmedOf(d) :
                            appointments[i].start_time >= start_date_or_now(sd, now)})
            /\ \A p \in Patients :
                LET r == get_my_appointments(p, sd, now)
                IN r.outcome = "ok" =>
                     ListsExactly(r.rows,
                        {i \in Ids(appointments) :
                            /\ appointments[i].patient_id = p
                            /\ appointments[i].status = CONFIRMED
                            /\ appointments[i].start_time >= start_date_or_now(sd, now)})

\* The ids a listing returned.
Listing(rows) == {rows[k] : k \in DOMAIN rows}

\* C22: after a cancel that succeeded, the appointment is still stored and
\* found by its id with status Cancelled, and no listing of its doctor or of
\* its patient returns it, with or without a filter: the listings return
\* Confirmed appointments only.
C22_SoftCancel ==
    (last.op = "cancel_appointment" /\ last.outcome = "ok") =>
        /\ get_appointment_by_id(appointments, last.id) = last.id
        /\ last.id \in Ids(appointments)
        /\ appointments[last.id].status = CANCELLED
        /\ \A sd \in StartDates :
            LET a == appointments[last.id]
                da == get_doctor_appointments(appointments, a.doctor_id, sd)
                pa == get_patient_appointments(appointments, a.patient_id, sd)
            IN /\ last.id \notin Listing(da) \cup Listing(pa)
               /\ last.id \notin Listing(doctor_get_my_appointments(a.doctor_id, sd, now).rows)
               /\ last.id \notin Listing(patient_get_my_appointments(a.patient_id, sd, now).rows)
               /\ \A i \in Listing(da) \cup Listing(pa) : appointments[i].status = CONFIRMED

\* An appointment was cancelled with success while another appointment of the
\* same doctor and patient stays Confirmed and listed.
C22_Witness ==
    /\ last.op = "cancel_appointment" /\ last.outcome = "ok"
    /\ last.id \in Ids(appointments)
    /\ appointments[last.id].status = CANCELLED
    /\ \E j \in Ids(appointments) :
        /\ j # last.id
        /\ appointments[j].status = CONFIRMED
        /\ appointments[j].doctor_id = appointments[last.id].doctor_id
        /\ appointments[j].patient_id = appointments[last.id].patient_id
        /\ j \in Listing(get_doctor_appointments(
                          appointments, appointments[j].doctor_id, NoDate))

\* The users table without the user of an email.
WithoutEmail(us, email) ==
    LET others(row) == row.email # email
    IN SelectSeq(us, others)

\* C23: forgot_password does not tell whether an email is registered: its
\* response, message and reset_token, is the same for the stored users and
\* for the users without the one that has the requested email.
C23_ForgotPasswordHidesExistence ==
    last = Idle =>
        \A email \in Emails :
            forgot_password(users, email) = forgot_password(WithoutEmail(users, email), email)

\* C24: the conflict test is symmetric: a stored Confirmed appointment (a
\* stored window) is found by the conflict query for an interval [s, e) with
\* s < e exactly when, the interval being the one stored, the query for the
\* appointment's (window's) interval finds it, so the answer does not depend
\* on which of the two was stored first.
C24_OverlapSymmetry ==
    \A s, e \in Time :
        s < e =>
            /\ \A i \in Ids(appointments) :
                appointments[i].status = CONFIRMED =>
                    LET a == appointments[i]
                        other == <<BookedRow(a.patient_id, a.doctor_id, s, e)>>
                    IN (i \in booking_conflict_rows(appointments, a.doctor_id, s, e))
                        <=> (booking_conflict_rows(other, a.doctor_id,
                                                   a.start_time, a.end_time) # {})
            /\ \A w \in Ids(availabilities) :
                LET a == availabilities[w]
                    other == <<[doctor_id |-> a.doctor_id, start_time |-> s, end_time |-> e]>>
                IN (w \in availability_overlap_rows(availabilities, a.doctor_id, s, e))
                    <=> (availability_overlap_rows(other, a.doctor_id,
                                                   a.start_time, a.end_time) # {})

\* A booking was just rejected as double booked against a Confirmed
\* appointment that begins after the first instant a request can name.
C24_Witness ==
    /\ last.op = "book_appointment" /\ last.outcome = "DoubleBooked"
    /\ \E i \in Ids(appointments) :
        appointments[i].status = CONFIRMED /\ appointments[i].start_time > 1

\* C25: a book or set-availability request with end <= start is rejected as
\* InvalidInterval and one whose start is not strictly later than the clock
\* (start <= now) as PastInterval, nothing being stored; and every stored
\* window and appointment has end_time > start_time.
C25_IntervalValidation ==
    /\ \A w \in Ids(availabilities) :
            availabilities[w].end_time > availabilities[w].start_time
    /\ \A i \in Ids(appointments) :
            appointments[i].end_time > appointments[i].start_time
    /\ last = Idle =>
        \A s, e \in Time :
            (e <= s \/ s <= now) =>
                LET rejected == (IF e <= s THEN {"InvalidInterval"} ELSE {})
                                    \cup (IF s <= now THEN {"PastInterval"} ELSE {})
                IN /\ \A d \in Doctors :
                        LET r == service_set_availability(d, s, e, now)
                        IN r.outcome \in rejected /\ r.availabilities = availabilities
                   /\ \A p \in Patients, d \in Doctors :
                        LET r == service_book_appointment(p, d, s, e, now)
                        IN r.outcome \in rejected /\ r.appointments = appointments

\* C26 (as stated): a booking fails at the first of NotFound, InvalidInterval /
\* PastInterval, OutsideAvailability, DoubleBooked that applies: a request
\* naming no doctor fails with NotFound whatever its interval, and a valid
\* request for a doctor that is outside every window and meets a Confirmed
\* appointment fails with OutsideAvailability.
C26_NotFoundFirst ==
    last = Idle =>
        \A p \in Patients, d \in DoctorIdArgs, s, e \in Time :
            LET r == service_book_appointment(p, d, s, e, now)
            IN /\ d \notin Doctors => r.outcome = "NotFound"
               /\ (/\ d \in Doctors /\ s >= now /\ s < e
                   /\ ~Covered(d, s, e)
                   /\ \E i \in ConfirmedOf(d) : Meets(i, s, e)) =>
                        r.outcome = "OutsideAvailability"

\* C26 (amended): a booking by a patient fails at the first that applies of the
\* validation of the body (PastInterval, then InvalidInterval), NotFound,
\* OutsideAvailability and the conflict check, in this order, and is stored
\* when none applies: a request naming no doctor with an invalid or past
\* interval fails with the validation error, and a request outside every
\* window that meets a Confirmed appointment fails with OutsideAvailability.
C26_FailureOrder ==
    last = Idle =>
        \A p \in Patients, d \in DoctorIdArgs, s, e \in Time :
            LET r == service_book_appointment(p, d, s, e, now)
            IN IF s < now THEN r.outcome = "PastInterval"
               ELSE IF e <= s THEN r.outcome = "InvalidInterval"
               ELSE IF d \notin Doctors THEN r.outcome = "NotFound"
               ELSE IF ~Covered(d, s, e) THEN r.outcome = "OutsideAvailability"
               ELSE IF \E i \in ConfirmedOf(d) : Meets(i, s, e)
                    THEN r.outcome \in {"DoubleBooked", "MultipleResultsFound"}
               ELSE r.outcome = "ok" /\ r.id = Len(appointments) + 1

\* A booking was rejected as outside availability in a store where a valid
\* request is both outside every window of its doctor and over a Confirmed
\* appointment of that doctor.
C26_Witness ==
    /\ last.op = "book_appointment" /\ last.outcome = "OutsideAvailability"
    /\ last.caller \in Patients
    /\ \E d \in Doctors, s, e \in Time :
        /\ s >= now /\ s < e
        /\ ~Covered(d, s, e)
        /\ \E i \in ConfirmedOf(d) : Meets(i, s, e)

\* C27: a book, cancel or set-availability request that returns an error to
\* its caller leaves users, windows and appointments as they were before the
\* request, whatever the clock reads when the response is built.
C27_ErrorLeavesStore ==
    [][(/\ last'.op \in {"book_appointment", "cancel_appointment", "set_availability"}
        /\ last'.outcome # "ok") =>
            /\ users' = users
            /\ availabilities' = availabilities
            /\ appointments' = appointments
      ]_vars

\* C28: in every reachable state each stored appointment, Confirmed or
\* Cancelled, lies inside a single window of its own doctor.
C28_InsideWindow ==
    \A i \in Ids(appointments) :
        Covered(appointments[i].doctor_id,
                appointments[i].start_time, appointments[i].end_time)

\* A Cancelled and a Confirmed appointment of one doctor are stored, each in
\* one of the doctor's two windows.
C28_Witness ==
    \E i, j \in Ids(appointments) :
        /\ appointments[i].status = CANCELLED
        /\ appointments[j].status = CONFIRMED
        /\ appointments[i].doctor_id = appointments[j].doctor_id
        /\ appointments[i].start_time # appointments[j].start_time
        /\ Cardinality(WindowsOf(appointments[i].doctor_id)) = 2

\* The windows of doctor d alone, and the Confirmed appointments of d alone.
OwnWindows(d) ==
    LET own(row) == row.doctor_id = d
    IN SelectSeq(availabilities, own)
OwnConfirmed(d) ==
    LET own(row) == row.doctor_id = d /\ row.status = CONFIRMED
    IN SelectSeq(appointments, own)

\* C29: whether a valid booking for doctor d is admitted is decided by the
\* windows of d and the Confirmed appointments of d alone: the answer is the
\* one the coverage and conflict checks give on those records, whatever other
\* doctors' records and the patient's other appointments are; and the booking
\* changes no stored record, the one row it adds being an appointment of d.
C29_AdmissionPerDoctor ==
    last = Idle =>
        \A p \in Patients, d \in Doctors, s, e \in Time :
            (s >= now /\ s < e) =>
                LET r == service_book_appointment(p, d, s, e, now)
                    conflict == check_booking_conflict(OwnConfirmed(d), d, s, e)
                    expected ==
                        IF ~check_time_within_availability(OwnWindows(d), d, s, e)
                        THEN "OutsideAvailability"
                        ELSE IF conflict = "MultipleResultsFound" THEN conflict
                        ELSE IF conflict = "True" THEN "DoubleBooked"
                        ELSE "ok"
                IN /\ r.outcome = expected
                   /\ \A i \in Ids(appointments) : r.appointments[i] = appointments[i]
                   /\ \A i \in Ids(r.appointments) \ Ids(appointments) :
                        r.appointments[i] = BookedRow(p, d, s, e)
                   /\ expected = "ok" => Len(r.appointments) = Len(appointments) + 1
                   /\ expected # "ok" => r.appointments = appointments

\* A patient was just given a second Confirmed appointment that overlaps the
\* Confirmed appointment the same patient has with another doctor.
C29_Witness ==
    /\ last.op = "book_appointment" /\ last.outcome = "ok" /\ last.id # 0
    /\ \E i \in Ids(appointments) :
        /\ i # last.id
        /\ appointments[i].patient_id = appointments[last.id].patient_id
        /\ appointments[i].doctor_id # appointments[last.id].doctor_id
        /\ appointments[i].status = CONFIRMED
        /\ appointments[last.id].status = CONFIRMED
        /\ Overlap(appointments[i], appointments[last.id])

\* C30: no step removes a window or an appointment or changes the doctor,
\* patient, start or end of a stored record.  Only set-availability changes the
\* windows, by adding one window, exactly one when it answers ok, and it
\* changes no appointment; only book-appointment adds an appointment, one per
\* step, exactly one when it answers ok, and it changes no window and no
\* stored appointment; only cancel-appointment changes a status, and only the
\* status of the appointment it was asked to cancel.
C30_RecordsImmutable ==
    [][LET started(op) == last = Idle /\ last'.op = op
           sameButStatus(i) ==
               [appointments'[i] EXCEPT !.status = appointments[i].status]
                   = appointments[i]
       IN /\ Len(availabilities') >= Len(availabilities)
          /\ Len(appointments') >= Len(appointments)
          /\ \A i \in Ids(availabilities) : availabilities'[i] = availabilities[i]
          /\ \A i \in Ids(appointments) : sameButStatus(i)
          /\ availabilities' # availabilities =>
                /\ started("set_availability")
                /\ Len(availabilities') = Len(availabilities) + 1
          /\ started("set_availability") =>
                /\ appointments' = appointments
                /\ last'.outcome = "ok" =>
                        Len(availabilities') = Len(availabilities) + 1
          /\ Len(appointments') # Len(appointments) =>
                /\ started("book_appointment")
                /\ Len(appointments') = Len(appointments) + 1
          /\ started("book_appointment") =>
                /\ availabilities' = availabilities
                /\ \A i \in Ids(appointments) : appointments'[i] = appointments[i]
                /\ last'.outcome = "ok" =>
                        Len(appointments') = Len(appointments) + 1
          /\ started("cancel_appointment") =>
                /\ availabilities' = availabilities
                /\ Len(appointments') = Len(appointments)
          /\ \A i \in Ids(appointments) :
                appointments'[i].status # appointments[i].status =>
                    started("cancel_appointment") /\ last'.id = i
      ]_vars

\* Two windows and two appointments are stored, and the last request cancelled
\* the second appointment while the first one is still Confirmed.
C30_Witness ==
    /\ last.op = "cancel_appointment"
    /\ Len(availabilities) = 2
    /\ Len(appointments) = 2
    /\ last.id = 2
    /\ last.caller = appointments[2].patient_id
    /\ appointments[2].status = CANCELLED
    /\ appointments[1].status = CONFIRMED

====
